---------------------------- MODULE Spec2Model ----------------------------
(***************************************************************************)
(* Model of felix's iptables rule rendering and chain fingerprinting       *)
(* (go/felix/iptables/rules.go).                                           *)
(*                                                                         *)
(* Text is modelled by TLA+ strings, assembled with \o exactly where the   *)
(* Go code concatenates, formats or joins.  Bytes are naturals in 0..255.  *)
(***************************************************************************)
EXTENDS Integers, Sequences, FiniteSets, Bags, TLC

VARIABLES
    c1,              \* a Chain value: [Name, Rules]
    c2,              \* a second Chain value
    h1,              \* what the last c1.RuleHashes() call returned and logged
    h2,              \* what the last c2.RuleHashes() call returned and logged
    rule,            \* receiver of the last Render* call
    chainName,       \* chainName argument of the last Render* call
    prefixFragment,  \* prefixFragment argument of the last Render* call
    out              \* the last Render* call: which one, its ruleNum, its result

vars == <<c1, c2, h1, h2, rule, chainName, prefixFragment, out>>

(***************************************************************************)
(* Text helpers.                                                           *)
(***************************************************************************)

\* The printable ASCII characters in code order: codes 32 (space) to 95 (_) and
\* 97 (a) to 126 (~).  Code 96 cannot be written in a TLA+ string and is left out.
PrintableLow == " !\"#$%&'()*+,-./0123456789:;<=>?@ABCDEFGHIJKLMNOPQRSTUVWXYZ[\\]^_"

PrintableHigh == "abcdefghijklmnopqrstuvwxyz{|}~"

CharAt(s, i) == SubSeq(s, i, i)

\* []byte(s) for ASCII text: the UTF-8 byte of a printable character is its code.
OrdTable ==
    [ch \in {CharAt(PrintableLow, i) : i \in 1..Len(PrintableLow)}
             \cup {CharAt(PrintableHigh, i) : i \in 1..Len(PrintableHigh)} |->
        IF \E i \in 1..Len(PrintableLow) : CharAt(PrintableLow, i) = ch
        THEN 31 + (CHOOSE i \in 1..Len(PrintableLow) : CharAt(PrintableLow, i) = ch)
        ELSE 96 + (CHOOSE i \in 1..Len(PrintableHigh) : CharAt(PrintableHigh, i) = ch)]

Bytes(s) == SubSeq([i \in 1..Len(s) |-> OrdTable[CharAt(s, i)]], 1, Len(s))

Digits == "0123456789abcdef"

RECURSIVE FormatUint(_, _)
\* strconv-style formatting of n >= 0 in the given base, no padding.
FormatUint(n, base) ==
    IF n < base
    THEN CharAt(Digits, n + 1)
    ELSE FormatUint(n \div base, base) \o CharAt(Digits, (n % base) + 1)

\* fmt.Sprintf("%d", n)
SprintfD(n) == IF n < 0 THEN "-" \o FormatUint(0 - n, 10) ELSE FormatUint(n, 10)

\* fmt.Sprintf("%x", n) for an unsigned n
SprintfX(n) == FormatUint(n, 16)

RECURSIVE Join(_, _)
\* strings.Join(fragments, sep)
Join(fragments, sep) ==
    IF Len(fragments) = 0 THEN ""
    ELSE IF Len(fragments) = 1 THEN fragments[1]
    ELSE fragments[1] \o sep \o Join(Tail(fragments), sep)

(***************************************************************************)
(* Actions (rules.go 32-99).  An Action value is a record tagged with the  *)
(* Go type that implements the interface.                                  *)
(***************************************************************************)

ToFragment(a) ==
    CASE a.kind = "GotoAction"      -> "--goto " \o a.Target
      [] a.kind = "JumpAction"      -> "--jump " \o a.Target
      [] a.kind = "ReturnAction"    -> "--jump RETURN"
      [] a.kind = "DropAction"      -> "--jump DROP"
      [] a.kind = "AcceptAction"    -> "--jump ACCEPT"
      [] a.kind = "DNATAction"      ->
            "--jump DNAT --to-destination " \o a.DestAddr \o ":" \o SprintfD(a.DestPort)
      [] a.kind = "MasqAction"      -> "--jump MASQUERADE"
      [] a.kind = "ClearMarkAction" -> "--jump MARK --set-mark 0/" \o SprintfX(a.Mark)
      [] a.kind = "SetMarkAction"   ->
            "--jump MARK --set-mark " \o SprintfX(a.Mark) \o "/" \o SprintfX(a.Mark)
      \* any other implementation of the Action interface: renders what it holds
      [] OTHER                      -> a.Fragment

\* MatchCriteria.Render(): the match-criteria value is carried as the text
\* its renderer returns.
MatchRender(m) == m.rendered

(***************************************************************************)
(* Rule rendering (rules.go 101-142).                                      *)
(***************************************************************************)

\* renderInner with the match fragment appended before the comment fragment
renderInner_MatchFirst(r, fragments, prefix) ==
    LET f1 == IF prefix # "" THEN Append(fragments, prefix) ELSE fragments
        matchFragment == MatchRender(r.Match)
        f2 == IF matchFragment # "" THEN Append(f1, matchFragment) ELSE f1
        commentFragment == "-m comment --comment \"" \o r.Comment \o "\""
        f3 == IF r.Comment # "" THEN Append(f2, commentFragment) ELSE f2
        actionFragment == ToFragment(r.Action)
        f4 == IF actionFragment # "" THEN Append(f3, actionFragment) ELSE f3
    IN  Join(f4, " ")

\* renderInner without the test for an empty prefix fragment
renderInner_KeepsEmptyPrefix(r, fragments, prefix) ==
    LET f1 == Append(fragments, prefix)
        commentFragment == "-m comment --comment \"" \o r.Comment \o "\""
        f2 == IF r.Comment # "" THEN Append(f1, commentFragment) ELSE f1
        matchFragment == MatchRender(r.Match)
        f3 == IF matchFragment # "" THEN Append(f2, matchFragment) ELSE f2
        actionFragment == ToFragment(r.Action)
        f4 == IF actionFragment # "" THEN Append(f3, actionFragment) ELSE f3
    IN  Join(f4, " ")

\* lines 125-142
renderInner(r, fragments, prefix) ==
    LET f1 == IF prefix # "" THEN Append(fragments, prefix) ELSE fragments
        commentFragment == "-m comment --comment \"" \o r.Comment \o "\""
        f2 == IF r.Comment # "" THEN Append(f1, commentFragment) ELSE f1
        matchFragment == MatchRender(r.Match)
        f3 == IF matchFragment # "" THEN Append(f2, matchFragment) ELSE f2
        actionFragment == ToFragment(r.Action)
        f4 == IF actionFragment # "" THEN Append(f3, actionFragment) ELSE f3
    IN  Join(f4, " ")

RenderAppend(r, name, prefix) == renderInner(r, <<"-A", name>>, prefix)

RenderInsert(r, name, prefix) == renderInner(r, <<"-I", name>>, prefix)

\* RenderReplace that numbers the rules from 0
RenderReplace_ZeroBased(r, name, ruleNum, prefix) ==
    renderInner(r, <<"-R", name, SprintfD(ruleNum - 1)>>, prefix)

RenderReplace(r, name, ruleNum, prefix) ==
    renderInner(r, <<"-R", name, SprintfD(ruleNum)>>, prefix)

(***************************************************************************)
(* Digest and encoding used by Chain.RuleHashes (rules.go 149-178).        *)
(*                                                                         *)
(* crypto/sha256 is not part of the repository.  The model keeps the       *)
(* interface RuleHashes uses (New224, Write, Reset, Sum: bytes in, 28      *)
(* bytes out, a deterministic function of all bytes written since the last *)
(* Reset) and replaces the SHA-224 compression by a small polynomial mix   *)
(* over four 15-bit lanes.  The claims about fingerprints treat the digest *)
(* as collision-free; DigestCollisionFree below checks that the stand-in   *)
(* has no collision on any input the model feeds it.                       *)
(***************************************************************************)

HashLength == 16

\* sha256.Size224
Size224 == 28

LaneModulus == <<32749, 32719, 32717, 32713>>
LaneFactor  == <<257, 263, 269, 271>>
NumLanes    == Len(LaneModulus)

RECURSIVE PowMod(_, _, _)
\* m^e mod p, by repeated squaring
PowMod(m, e, p) ==
    IF e = 0 THEN 1
    ELSE LET h == PowMod(m, e \div 2, p)
             q == (h * h) % p
         IN  IF e % 2 = 0 THEN q ELSE (q * m) % p

\* sha256.New224() and s.Reset(): the digest state with nothing written
New224 == [len |-> 0, lanes |-> <<0, 0, 0, 0>>]

\* the longest input the weights are tabulated for, in bytes
MaxInput == 255

\* Weight[k][n]: the weight in lane k of the n-th byte written
Weight ==
    [k \in 1..NumLanes |->
        [n \in 1..MaxInput |-> PowMod(LaneFactor[k], n, LaneModulus[k])]]

\* what lane k gains from data written at offset len: each byte weighted by a
\* power of the lane's factor that depends on its position in the whole input
\* (BagCardinality adds up the terms: a sequence of positive numbers is a bag)
Absorb(k, len, data) ==
    BagCardinality([i \in 1..Len(data) |-> (data[i] + 1) * Weight[k][len + i]])

\* s.Write(data)
Write(s, data) ==
    [len   |-> s.len + Len(data),
     lanes |-> <<(s.lanes[1] + Absorb(1, s.len, data)) % LaneModulus[1],
                 (s.lanes[2] + Absorb(2, s.len, data)) % LaneModulus[2],
                 (s.lanes[3] + Absorb(3, s.len, data)) % LaneModulus[3],
                 (s.lanes[4] + Absorb(4, s.len, data)) % LaneModulus[4]>>]

\* byte j (1..Size224) of the digest of state s
SumByte(s, j) ==
    LET k == ((j - 1) % NumLanes) + 1
        n == ((((j - 1) % NumLanes) + ((j - 1) \div NumLanes)) % NumLanes) + 1
        a == s.lanes[k]
        b == s.lanes[n]
    IN  IF j <= NumLanes THEN a % 256
        ELSE IF j <= 2 * NumLanes THEN a \div 256
        ELSE (a + (j * b) + (b \div 256) + s.len) % 256

\* s.Sum(nil): the Size224 digest bytes of what was written
Sum(s) == SubSeq([j \in 1..Size224 |-> SumByte(s, j)], 1, Size224)

\* base64.RawURLEncoding's alphabet
encodeURL == "ABCDEFGHIJKLMNOPQRSTUVWXYZabcdefghijklmnopqrstuvwxyz0123456789-_"

Sextet(v) == CharAt(encodeURL, v + 1)

RECURSIVE EncodeFrom(_, _)
\* base64.RawURLEncoding.EncodeToString(src), from byte i on: three bytes give four
\* characters; one or two trailing bytes give two or three, with no padding.
EncodeFrom(src, i) ==
    LET left == Len(src) - i + 1
    IN  IF left <= 0 THEN ""
        ELSE IF left = 1 THEN
            Sextet(src[i] \div 4) \o Sextet((src[i] % 4) * 16)
        ELSE IF left = 2 THEN
            Sextet(src[i] \div 4) \o Sextet(((src[i] % 4) * 16) + (src[i + 1] \div 16))
                \o Sextet((src[i + 1] % 16) * 4)
        ELSE
            Sextet(src[i] \div 4) \o Sextet(((src[i] % 4) * 16) + (src[i + 1] \div 16))
                \o Sextet(((src[i + 1] % 16) * 4) + (src[i + 2] \div 64))
                \o Sextet(src[i + 2] % 64)
                \o EncodeFrom(src, i + 3)

EncodeToString(src) == EncodeFrom(src, 1)

(***************************************************************************)
(* Chain.RuleHashes (rules.go 149-178).                                    *)
(***************************************************************************)

\* the text fed to the digest rendered with the prefix of the last installation
\* call instead of the sentinel
ruleForHashing_InstallPrefix(r, name) == RenderAppend(r, name, prefixFragment)

\* the text fed to the digest followed by the rule's Comment field
ruleForHashing_WithComment(r, name) == RenderAppend(r, name, "HASH") \o r.Comment

\* line 161: the text of a rule that is fed to the digest
ruleForHashing(r, name) == RenderAppend(r, name, "HASH")

\* lines 153-155: the digest of the chain name alone
SeedHash(name) == Sum(Write(New224, Bytes(name)))

\* the step without s.Write(hash): the previous hash is not chained in
NextHash_NoChain(hash, text) == Sum(Write(New224, Bytes(text)))

\* lines 159-163: Reset, Write(hash), Write(rule text), Sum
NextHash(hash, text) == Sum(Write(Write(New224, hash), Bytes(text)))

\* the encoded hash without the cut to HashLength
Fingerprint_Untruncated(hash) == EncodeToString(hash)

\* line 166
Fingerprint(hash) == SubSeq(EncodeToString(hash), 1, HashLength)

RECURSIVE HashLoop_StaleHash(_, _, _, _)
\* the loop without the assignment to hash: every step starts from the seed
HashLoop_StaleHash(c, ii, hash, acc) ==
    IF ii > Len(c.Rules) THEN acc
    ELSE LET text == ruleForHashing(c.Rules[ii], c.Name)
             next == NextHash(hash, text)
         IN  HashLoop_StaleHash(c, ii + 1, hash,
                      Append(acc, [ruleFragment |-> text,
                                   action       |-> c.Rules[ii].Action,
                                   position     |-> ii - 1,
                                   chain        |-> c.Name,
                                   hash         |-> Fingerprint(next)]))

RECURSIVE HashLoop(_, _, _, _)
\* lines 156-176: the loop from position ii (1-based here) on, with the running
\* hash; it yields one record per rule, holding the fields of the loop's debug
\* log entry, of which "hash" is hashes[ii].
HashLoop(c, ii, hash, acc) ==
    IF ii > Len(c.Rules) THEN acc
    ELSE LET text == ruleForHashing(c.Rules[ii], c.Name)
             next == NextHash(hash, text)
         IN  HashLoop(c, ii + 1, next,
                      Append(acc, [ruleFragment |-> text,
                                   action       |-> c.Rules[ii].Action,
                                   position     |-> ii - 1,
                                   chain        |-> c.Name,
                                   hash         |-> Fingerprint(next)]))

\* the seed taken over the name and the number of rules
HashSteps_CountSeeded(c) ==
    HashLoop(c, 1, SeedHash(c.Name \o SprintfD(Len(c.Rules))), <<>>)

\* the chain fingerprinted without its name
HashSteps_Unnamed(c) == HashLoop([c EXCEPT !.Name = ""], 1, SeedHash(""), <<>>)

\* lines 150-176: seed, then the loop over c.Rules
HashSteps(c) == HashLoop(c, 1, SeedHash(c.Name), <<>>)

\* Chain.RuleHashes: the returned slice, one fingerprint per rule in rule order,
\* and the entries written to the log when the log level is Debug
RuleHashes(c, debug) ==
    LET steps == HashSteps(c)
    IN  [done   |-> TRUE,
         hashes |-> SubSeq([ii \in 1..Len(steps) |-> steps[ii].hash], 1, Len(steps)),
         log    |-> IF debug THEN steps ELSE <<>>]

(***************************************************************************)
(* Inputs.                                                                 *)
(***************************************************************************)

\* the longest chain whose fingerprints are compared with another chain's
MaxRules == 3

\* the longest chain that is rendered for installation
MaxInstallRules == 2

Rule(m, a, cmt) == [Match |-> [rendered |-> m], Action |-> a, Comment |-> cmt]

Accept == [kind |-> "AcceptAction"]
Drop   == [kind |-> "DropAction"]
Return == [kind |-> "ReturnAction"]

CommentMatch == "-m comment --comment \"x\""

\* Rules of the chains that are fingerprinted.  The second and the third render
\* to the same text: one carries x as its comment, the other as its match.
HashRules ==
    { Rule("", Accept, ""),
      Rule("", Drop, "x"),
      Rule(CommentMatch, Drop, ""),
      Rule("-p tcp", Return, "") }

Names == {"ci", "co"}

SeqsUpTo(S, n) == UNION {[1..m -> S] : m \in 0..n}

Chains == [Name : Names, Rules : SeqsUpTo(HashRules, MaxRules)]

Min(a, b) == IF a < b THEN a ELSE b

Swap(rules, j, k) == [rules EXCEPT ![j] = rules[k], ![k] = rules[j]]

\* The chains a chain is compared with: itself, the same rules under another
\* name, one rule replaced, two rules swapped, and a prefix of it followed by
\* at most one other rule.
Variants(c) ==
    LET n == Len(c.Rules)
    IN  {c}
        \cup {[c EXCEPT !.Name = m] : m \in Names \ {c.Name}}
        \cup {[c EXCEPT !.Rules[j] = r] : j \in 1..n, r \in HashRules}
        \cup {[c EXCEPT !.Rules = Swap(c.Rules, j, k)] : j \in 1..n, k \in 1..n}
        \cup UNION {{[c EXCEPT !.Rules = SubSeq(c.Rules, 1, p) \o s] :
                        s \in SeqsUpTo(HashRules, Min(1, MaxRules - p))} : p \in 1..n}

\* Every implementation of Action in rules.go, and one outside it that renders
\* to the empty fragment.
Actions ==
    { [kind |-> "GotoAction", Target |-> "cali-fw"],
      [kind |-> "JumpAction", Target |-> "cali-tw"],
      Return, Drop, Accept,
      [kind |-> "DNATAction", DestAddr |-> "10.0.0.1", DestPort |-> 8080],
      [kind |-> "MasqAction"],
      [kind |-> "ClearMarkAction", Mark |-> 16],
      [kind |-> "SetMarkAction", Mark |-> 255],
      [kind |-> "Other", Fragment |-> ""] }

Matches == {"", "-p tcp", CommentMatch}

Comments == {"", "x"}

RenderRules == {Rule(m, a, cmt) : m \in Matches, a \in Actions, cmt \in Comments}

RenderNames == {"", "ci", "cali-INPUT"}

Prefixes == {"", "HASH", "-m mark"}

RuleNums == {0 - 1, 1, 10, 123}

\* Chains that are rendered: any single rule under any name, the empty chain,
\* and the fingerprinted rules in chains of up to MaxInstallRules.
RenderChains ==
    [Name : RenderNames, Rules : [1..1 -> RenderRules]]
    \cup [Name : Names, Rules : SeqsUpTo(HashRules, MaxInstallRules)]

(***************************************************************************)
(* State machine.                                                          *)
(***************************************************************************)

NotHashed == [done |-> FALSE, hashes |-> <<>>, log |-> <<>>]

NotRendered == [op |-> "none", ruleNum |-> 0, text |-> ""]

NoRule == Rule("", Accept, "")

RenderIdle ==
    /\ rule = NoRule
    /\ chainName = ""
    /\ prefixFragment = ""
    /\ out = NotRendered

\* Two chains, not yet fingerprinted.
Init ==
    /\ c1 \in Chains
    /\ c2 \in Variants(c1)
    /\ h1 = NotHashed
    /\ h2 = NotHashed
    /\ RenderIdle

\* c1.RuleHashes() with the log level at its default, Info
HashFirst ==
    /\ ~h1.done
    /\ h1' = RuleHashes(c1, FALSE)
    /\ UNCHANGED <<c1, c2, h2, rule, chainName, prefixFragment, out>>

\* then c2.RuleHashes()
HashSecond ==
    /\ h1.done
    /\ ~h2.done
    /\ h2' = RuleHashes(c2, FALSE)
    /\ UNCHANGED <<c1, c2, h1, rule, chainName, prefixFragment, out>>

Next == HashFirst \/ HashSecond

Spec == Init /\ [][Next]_vars

\* One chain, neither fingerprinted nor rendered yet.
InitRender ==
    /\ c1 \in RenderChains
    /\ c2 = c1
    /\ h1 = NotHashed
    /\ h2 = NotHashed
    /\ RenderIdle

\* c1.Rules[i].RenderAppend(c1.Name, p)
CallRenderAppend ==
    \E i \in 1..Len(c1.Rules), p \in Prefixes :
        /\ rule' = c1.Rules[i]
        /\ chainName' = c1.Name
        /\ prefixFragment' = p
        /\ out' = [op |-> "append", ruleNum |-> 0,
                   text |-> RenderAppend(c1.Rules[i], c1.Name, p)]
        /\ UNCHANGED <<c1, c2, h1, h2>>

\* c1.Rules[i].RenderInsert(c1.Name, p)
CallRenderInsert ==
    \E i \in 1..Len(c1.Rules), p \in Prefixes :
        /\ rule' = c1.Rules[i]
        /\ chainName' = c1.Name
        /\ prefixFragment' = p
        /\ out' = [op |-> "insert", ruleNum |-> 0,
                   text |-> RenderInsert(c1.Rules[i], c1.Name, p)]
        /\ UNCHANGED <<c1, c2, h1, h2>>

\* c1.Rules[i].RenderReplace(c1.Name, n, p)
CallRenderReplace ==
    \E i \in 1..Len(c1.Rules), n \in RuleNums, p \in Prefixes :
        /\ rule' = c1.Rules[i]
        /\ chainName' = c1.Name
        /\ prefixFragment' = p
        /\ out' = [op |-> "replace", ruleNum |-> n,
                   text |-> RenderReplace(c1.Rules[i], c1.Name, n, p)]
        /\ UNCHANGED <<c1, c2, h1, h2>>

\* c1.RuleHashes(), at any time and at either log level
CallRuleHashes ==
    \E debug \in BOOLEAN :
        /\ h1' = RuleHashes(c1, debug)
        /\ UNCHANGED <<c1, c2, h2, rule, chainName, prefixFragment, out>>

NextRender ==
    CallRenderAppend \/ CallRenderInsert \/ CallRenderReplace \/ CallRuleHashes

SpecRender == InitRender /\ [][NextRender]_vars

(***************************************************************************)
(* Properties of Chain.RuleHashes, checked under Spec.                     *)
(***************************************************************************)

BothHashed == h1.done /\ h2.done

SameName == c1.Name = c2.Name

SameLength == Len(c1.Rules) = Len(c2.Rules)

\* the text the claims name for rule i of chain c: RenderAppend(chainName, "HASH")
HashText(c, i) == RenderAppend(c.Rules[i], c.Name, "HASH")

\* c2 is c1 with the rule at position j replaced by another rule
ReplacedAt(j) ==
    /\ SameLength
    /\ c1.Rules[j] # c2.Rules[j]
    /\ \A m \in 1..Len(c1.Rules) : m # j => c1.Rules[m] = c2.Rules[m]

\* c2 is c1 with the rules at positions j and k exchanged
SwappedAt(j, k) == c2.Rules = Swap(c1.Rules, j, k)

\* C1: under one name, the fingerprints at positions 0..i are the same for any
\* two chains whose rules agree on positions 0..i, whatever follows i.
C1_PrefixDetermines ==
    (BothHashed /\ SameName) =>
        \A i \in 1..Min(Len(c1.Rules), Len(c2.Rules)) :
            SubSeq(c1.Rules, 1, i) = SubSeq(c2.Rules, 1, i)
                => SubSeq(h1.hashes, 1, i) = SubSeq(h2.hashes, 1, i)

\* two fingerprinted chains of different lengths that agree on their first two rules
C1_Witness ==
    /\ BothHashed /\ SameName
    /\ Len(c1.Rules) = 2 /\ Len(c2.Rules) = 3
    /\ SubSeq(c2.Rules, 1, 2) = c1.Rules
    /\ c2.Rules[3] # c1.Rules[2]

\* C2: replacing the rule at position j by one whose HASH text differs changes
\* the fingerprint at every position i >= j.
C2_ReplaceChanges ==
    (BothHashed /\ SameName) =>
        \A j \in 1..Len(c1.Rules) :
            (ReplacedAt(j) /\ HashText(c1, j) # HashText(c2, j))
                => \A i \in j..Len(c1.Rules) : h1.hashes[i] # h2.hashes[i]

\* the first of three rules replaced by one that renders differently
C2_Witness ==
    /\ BothHashed /\ SameName
    /\ Len(c1.Rules) = 3
    /\ ReplacedAt(1)
    /\ HashText(c1, 1) # HashText(c2, 1)

\* what C3 says of a swap of positions j < k: every fingerprint from j on
\* changes, none before j does
SwapChangesFrom(j) ==
    /\ \A i \in j..Len(c1.Rules) : h1.hashes[i] # h2.hashes[i]
    /\ \A i \in 1..(j - 1) : h1.hashes[i] = h2.hashes[i]

\* C3 as stated: for any chain and any two positions j < k, swapping the rules
\* at j and k changes the fingerprint at every position from j onward and at no
\* position before j.
C3_AnySwap ==
    (BothHashed /\ SameName) =>
        \A j \in 1..Len(c1.Rules) : \A k \in (j + 1)..Len(c1.Rules) :
            SwappedAt(j, k) => SwapChangesFrom(j)

\* C3 (amended): swapping the rules at j < k changes the fingerprint at every
\* position from j onward and at no position before j when the two rules render
\* to different HASH text; when they render to the same text, the swap changes
\* no fingerprint at all.
C3_SwapOfDifferent ==
    (BothHashed /\ SameName) =>
        \A j \in 1..Len(c1.Rules) : \A k \in (j + 1)..Len(c1.Rules) :
            SwappedAt(j, k) =>
                IF HashText(c1, j) # HashText(c1, k)
                THEN SwapChangesFrom(j)
                ELSE h1.hashes = h2.hashes

\* the second and third of three rules, rendering differently, swapped
C3_Witness ==
    /\ BothHashed /\ SameName
    /\ Len(c1.Rules) = 3
    /\ SwappedAt(2, 3)
    /\ HashText(c1, 2) # HashText(c1, 3)

\* C4: the same non-empty rule sequence under two different names gives
\* fingerprints that differ at every position.
C4_NameChangesAll ==
    (BothHashed /\ ~SameName /\ c1.Rules = c2.Rules) =>
        \A i \in 1..Len(c1.Rules) : h1.hashes[i] # h2.hashes[i]

\* three rules fingerprinted under two names
C4_Witness ==
    /\ BothHashed /\ ~SameName
    /\ c1.Rules = c2.Rules
    /\ Len(c1.Rules) = 3

\* C10: two chains of one name and one length whose rules render pairwise to
\* the same HASH text have the same fingerprints, even when the rules differ.
C10_OnlyRenderedText ==
    (BothHashed /\ SameName /\ SameLength
        /\ \A i \in 1..Len(c1.Rules) : HashText(c1, i) = HashText(c2, i))
    => h1.hashes = h2.hashes

\* a rule with comment x and no match against one with no comment and the match
\* that renders the same text, in front of two more rules
C10_Witness ==
    /\ BothHashed /\ SameName /\ SameLength
    /\ Len(c1.Rules) = 3
    /\ c1.Rules[1] # c2.Rules[1]
    /\ c1.Rules[1].Comment # "" /\ c2.Rules[1].Comment = ""
    /\ \A i \in 1..Len(c1.Rules) : HashText(c1, i) = HashText(c2, i)

\* The stand-in digest has no collision on the inputs of the model: two
\* fingerprints of the two chains are equal only at the same position, under the
\* same name and after the same sequence of digested texts.
DigestCollisionFree ==
    BothHashed =>
        \A i \in 1..Len(c1.Rules) : \A j \in 1..Len(c2.Rules) :
            h1.hashes[i] = h2.hashes[j] =>
                /\ i = j
                /\ SameName
                /\ \A m \in 1..i : HashText(c1, m) = HashText(c2, m)

(***************************************************************************)
(* Properties of the Render* calls and of RuleHashes' result, checked      *)
(* under SpecRender.                                                       *)
(***************************************************************************)

Chars(t) == {CharAt(t, i) : i \in 1..Len(t)}

UrlSafe == Chars("ABCDEFGHIJKLMNOPQRSTUVWXYZ") \cup Chars("abcdefghijklmnopqrstuvwxyz")
               \cup Chars("0123456789") \cup {"-", "_"}

\* C5: a chain of n rules (n = 0 included) gets exactly n fingerprints, the k-th
\* that of the k-th rule, each of exactly 16 characters of [A-Za-z0-9_-].
C5_OnePerRule ==
    h1.done =>
        /\ Len(h1.hashes) = Len(c1.Rules)
        /\ \A k \in 1..Len(h1.hashes) :
              /\ Len(h1.hashes[k]) = 16
              /\ Chars(h1.hashes[k]) \subseteq UrlSafe
        /\ h1.log # <<>> =>
              /\ Len(h1.log) = Len(c1.Rules)
              /\ \A k \in 1..Len(h1.log) :
                    /\ h1.log[k].position = k - 1
                    /\ h1.log[k].action = c1.Rules[k].Action
                    /\ h1.log[k].hash = h1.hashes[k]

\* two rules fingerprinted with the log level at Debug
C5_Witness ==
    /\ h1.done
    /\ Len(c1.Rules) = 2
    /\ h1.log # <<>>
    /\ c1.Rules[1].Action # c1.Rules[2].Action

\* C6: the text digested for each rule is RenderAppend(chainName, "HASH"), and
\* fingerprinting again after rendering the rules for installation, whatever
\* the verb, rule number and prefix, returns the same fingerprints.
C6_PrefixIndependent ==
    [][/\ (h1'.done /\ h1'.log # <<>>) =>
              \A k \in 1..Len(h1'.log) :
                  h1'.log[k].ruleFragment = RenderAppend(c1.Rules[k], c1.Name, "HASH")
       /\ (h1.done /\ h1'.done) => h1'.hashes = h1.hashes]_vars

\* fingerprints of a two-rule chain beside a replace rendered with a prefix
\* other than the sentinel
C6_Witness ==
    /\ h1.done /\ h1.log # <<>>
    /\ Len(c1.Rules) = 2
    /\ out.op = "replace"
    /\ prefixFragment = "-m mark"

\* a fragment as it stands in the joined text: nothing when empty, else one
\* space and the fragment
Opt(f) == IF f = "" THEN "" ELSE " " \o f

\* the optional fragments in the order the claims give: prefix, comment, match,
\* action
ExpectedTail(r, prefix) ==
    Opt(prefix)
        \o (IF r.Comment = "" THEN ""
            ELSE " -m comment --comment \"" \o r.Comment \o "\"")
        \o Opt(MatchRender(r.Match))
        \o Opt(ToFragment(r.Action))

\* C7: the three renderers join, with single spaces, the verb, the chain name,
\* the rule number (replace only), then the prefix, comment, match and action
\* fragments that are not empty, in this order; insert differs from append in
\* the verb only.
C7_FragmentOrder ==
    /\ out.op = "append" =>
          out.text = "-A " \o chainName \o ExpectedTail(rule, prefixFragment)
    /\ out.op = "insert" =>
          /\ out.text = "-I " \o chainName \o ExpectedTail(rule, prefixFragment)
          /\ SubSeq(out.text, 3, Len(out.text))
                = SubSeq(RenderAppend(rule, chainName, prefixFragment), 3,
                         Len(RenderAppend(rule, chainName, prefixFragment)))
    /\ out.op = "replace" =>
          out.text = "-R " \o chainName \o " " \o SprintfD(out.ruleNum)
                         \o ExpectedTail(rule, prefixFragment)

\* an insert with a prefix, a comment, a match and an action fragment
C7_Witness ==
    /\ out.op = "insert"
    /\ prefixFragment # ""
    /\ rule.Comment # ""
    /\ MatchRender(rule.Match) # ""
    /\ ToFragment(rule.Action) # ""

HasDoubleSpace(t) == \E i \in 1..(Len(t) - 1) : SubSeq(t, i, i + 1) = "  "

\* text that is not empty, neither starts nor ends with a space and has no two
\* spaces in a row
Clean(t) ==
    /\ t # ""
    /\ CharAt(t, 1) # " "
    /\ CharAt(t, Len(t)) # " "
    /\ ~HasDoubleSpace(t)

\* RenderAppend(chain, "") of a rule with no match text and no comment
BareAppend ==
    /\ out.op = "append"
    /\ prefixFragment = ""
    /\ MatchRender(rule.Match) = ""
    /\ rule.Comment = ""

\* C8 as stated: for any such rule and any chain name the result is
\* -A <chain> <action fragment> and has no double space.
C8_AnyChainName ==
    BareAppend =>
        /\ out.text = "-A " \o chainName \o " " \o ToFragment(rule.Action)
        /\ ~HasDoubleSpace(out.text)

\* C8 (amended): for such a rule the result is -A <chain> <action fragment> when
\* the action fragment is not empty and -A <chain> when it is; it has no double
\* space when the chain name and the action fragment are not empty, do not
\* start or end with a space and have no double space themselves.
C8_CleanChainName ==
    BareAppend =>
        /\ ToFragment(rule.Action) # "" =>
              out.text = "-A " \o chainName \o " " \o ToFragment(rule.Action)
        /\ ToFragment(rule.Action) = "" => out.text = "-A " \o chainName
        /\ (Clean(chainName) /\ Clean(ToFragment(rule.Action))) =>
              ~HasDoubleSpace(out.text)

\* a bare append under a clean chain name with an action that renders
C8_Witness ==
    /\ BareAppend
    /\ Clean(chainName)
    /\ Clean(ToFragment(rule.Action))
    /\ rule.Action.kind = "DNATAction"

\* the length of the first space-free token of t
TokenLen(t) ==
    IF \E i \in 1..Len(t) : CharAt(t, i) = " "
    THEN (CHOOSE i \in 1..Len(t) :
             /\ CharAt(t, i) = " "
             /\ \A m \in 1..(i - 1) : CharAt(t, m) # " ") - 1
    ELSE Len(t)

DecimalDigit(ch) ==
    CHOOSE d \in 0..9 : CharAt("0123456789", d + 1) = ch

RECURSIVE ParseDigits(_, _)
\* the value of the decimal digits of t after acc
ParseDigits(t, acc) ==
    IF t = "" THEN acc
    ELSE ParseDigits(SubSeq(t, 2, Len(t)), (acc * 10) + DecimalDigit(CharAt(t, 1)))

\* t is a decimal numeral: an optional minus sign, then digits with no leading 0
IsDecimal(t) ==
    LET digits == IF t # "" /\ CharAt(t, 1) = "-" THEN SubSeq(t, 2, Len(t)) ELSE t
    IN  /\ digits # ""
        /\ Chars(digits) \subseteq Chars("0123456789")
        /\ (Len(digits) > 1 => CharAt(digits, 1) # "0")

ParseDecimal(t) ==
    IF CharAt(t, 1) = "-" THEN 0 - ParseDigits(SubSeq(t, 2, Len(t)), 0)
    ELSE ParseDigits(t, 0)

\* C9: RenderReplace's result is -R, the chain name, then the rule number in
\* decimal, and only then the other fragments.
C9_RuleNumberAfterName ==
    out.op = "replace" =>
        LET head == "-R " \o chainName \o " "
            rest == SubSeq(out.text, Len(head) + 1, Len(out.text))
            num  == SubSeq(rest, 1, TokenLen(rest))
        IN  /\ SubSeq(out.text, 1, Len(head)) = head
            /\ IsDecimal(num)
            /\ ParseDecimal(num) = out.ruleNum
            /\ SubSeq(rest, Len(num) + 1, Len(rest))
                  = ExpectedTail(rule, prefixFragment)

\* a replace of rule number 123 with a prefix and a comment
C9_Witness ==
    /\ out.op = "replace"
    /\ out.ruleNum = 123
    /\ prefixFragment # ""
    /\ rule.Comment # ""

=============================================================================
